---- MODULE Spec2Model ----
(***************************************************************************)
(* py12306/helpers/cdn.py: CdnItem (per-host score accumulator) and Cdn   *)
(* (the ranked pool: cdn_list / cdn_map, incremental reorder under a     *)
(* lock, random selection from the top of the list, snapshot persistence  *)
(* and the watch_cdn background loop).                                     *)
(*                                                                         *)
(* Conventions.                                                            *)
(*  - Python floats are modelled as exact rationals <<n, d>> (d > 0, in    *)
(*    lowest terms); json.dumps / json.loads round-trip a float exactly.   *)
(*  - CdnItem objects live in the heap `objs` (a sequence; the object id  *)
(*    is its index); cdn_list and cdn_map hold object ids, so that two     *)
(*    CdnItem objects for one host are two different things.               *)
(*  - list_index and the loop variable i are 0-based as in the source;     *)
(*    At(list, i) reads list[i].                                           *)
(*  - Python's None is the number -1 where a field holds None or a number. *)
(***************************************************************************)
EXTENDS Integers, Sequences, FiniteSets, TLC

VARIABLES
    cdn_item_file,   \* content of Config().CDN_ITEM_FILE: one host per line
    avail_file,      \* content of Config().CDN_ENABLED_AVAILABLE_ITEM_FILE
    objs,            \* heap of CdnItem objects
    items,           \* Cdn.items
    is_ready,        \* Cdn.is_ready
    is_alive,        \* Cdn.is_alive
    cdn_list,        \* Cdn.cdn_list: sequence of object ids
    cdn_map,         \* Cdn.cdn_map: host -> object id
    lock,            \* Cdn.lock: 0 when free, else the thread holding it
    thr,             \* the threads calling report_cdn_result: position and locals
    selected,        \* outcome of the get_cdn call whose caller has not yet used it
    watchers,        \* number of live watch_cdn threads
    saver,           \* position and locals of the save_available_items in progress
    err,             \* exception that ended the last Cdn.run, "none" if it returned
    hist,            \* delays of the successful add_request_result calls made on
                     \* the item under test, in call order
    last             \* the last add_request_result call made on it: <<delay, success>>

vars == <<cdn_item_file, avail_file, objs, items, is_ready, is_alive, cdn_list,
          cdn_map, lock, thr, selected, watchers, saver, err, hist, last>>

None == -1

----------------------------------------------------------------------------
(* Float arithmetic of add_request_result, as exact rationals.             *)

Abs(x) == IF x < 0 THEN -x ELSE x

RECURSIVE Gcd(_, _)
Gcd(a, b) == IF b = 0 THEN a ELSE Gcd(b, a % b)

\* n / d for d > 0, in lowest terms
Rat(n, d) == LET g == Gcd(Abs(n), d) IN <<n \div g, d \div g>>

RInt(n) == <<n, 1>>
RZero == RInt(0)
RAdd(a, b) == Rat(a[1] * b[2] + b[1] * a[2], a[2] * b[2])
RSub(a, b) == Rat(a[1] * b[2] - b[1] * a[2], a[2] * b[2])
RMulInt(a, k) == Rat(a[1] * k, a[2])
RDivInt(a, k) == Rat(a[1], a[2] * k)
RGt(a, b) == a[1] * b[2] > b[1] * a[2]
RLeq(a, b) == a[1] * b[2] <= b[1] * a[2]
RGeq(a, b) == RLeq(b, a)

----------------------------------------------------------------------------
(* CdnItem                                                                 *)

SUCCESS_RATE_WEIGHT == 10000
BASE_DELAY_MS == 1000
AVG_DELAY_WEIGHT == 1000
MAX_DELAY_DATA == 10

\* CdnItem.__init__
CdnItem(host) ==
    [host |-> host, list_index |-> None,
     request_count |-> 0, success_count |-> 0,
     delay_data |-> <<>>, delay_count |-> 0, delay_rate_score |-> RZero,
     weight |-> RZero]

\* self.request_count += 1
IncRequestCount(self) == [self EXCEPT !.request_count = @ + 1]

\* EvictOldest testing `>` where the source tests `>=`
EvictOldest_OffByOne(self) ==
    IF Len(self.delay_data) > MAX_DELAY_DATA
    THEN [self EXCEPT !.delay_data = Tail(@),
                      !.delay_count = @ - Head(self.delay_data)]
    ELSE self

\* the window after `if len(self.delay_data) >= MAX_DELAY_DATA: pop(0)`
EvictOldest(self) ==
    IF Len(self.delay_data) >= MAX_DELAY_DATA
    THEN [self EXCEPT !.delay_data = Tail(@),
                      !.delay_count = @ - Head(self.delay_data)]
    ELSE self

\* DelayRateScore without the clamp at 0
DelayRateScore_NoClamp(delay_count, n) ==
    RDivInt(RSub(RInt(BASE_DELAY_MS), Rat(delay_count, n)), BASE_DELAY_MS)

\* (BASE_DELAY_MS - avg_delay) / BASE_DELAY_MS, clamped below at 0
DelayRateScore(delay_count, n) ==
    LET avg_delay == Rat(delay_count, n)
        score == RDivInt(RSub(RInt(BASE_DELAY_MS), avg_delay), BASE_DELAY_MS)
    IN IF RGt(score, RZero) THEN score ELSE RZero

\* the body of `if success:`
RecordSuccess(self, delay) ==
    LET e == EvictOldest(self)
        dc == e.delay_count + delay
        dd == Append(e.delay_data, delay)
    IN [e EXCEPT !.success_count = @ + 1,
                 !.delay_count = dc,
                 !.delay_data = dd,
                 !.delay_rate_score = DelayRateScore(dc, Len(dd))]

\* ComputeWeight with the two weights exchanged
ComputeWeight_WeightsExchanged(self) ==
    LET success_rate == Rat(self.success_count, self.request_count)
    IN [self EXCEPT !.weight = RAdd(RMulInt(success_rate, AVG_DELAY_WEIGHT),
                                    RMulInt(self.delay_rate_score, SUCCESS_RATE_WEIGHT))]

\* success_rate * SUCCESS_RATE_WEIGHT + delay_rate_score * AVG_DELAY_WEIGHT
ComputeWeight(self) ==
    LET success_rate == Rat(self.success_count, self.request_count)
    IN [self EXCEPT !.weight = RAdd(RMulInt(success_rate, SUCCESS_RATE_WEIGHT),
                                    RMulInt(self.delay_rate_score, AVG_DELAY_WEIGHT))]

\* AddRequestResult recording the delay of a failed request too
AddRequestResult_DelayOnFailure(self, delay, success) ==
    LET a == IncRequestCount(self)
        b == RecordSuccess(a, delay)
    IN ComputeWeight([b EXCEPT !.success_count =
                          IF success THEN @ ELSE self.success_count])

\* CdnItem.add_request_result
AddRequestResult(self, delay, success) ==
    LET a == IncRequestCount(self)
        b == IF success THEN RecordSuccess(a, delay) ELSE a
    IN ComputeWeight(b)

----------------------------------------------------------------------------
(* Bounds and inputs                                                       *)

MaxReports == 3      \* add_request_result calls counted over all items
MaxStarts == 1       \* load_items runs per process
MaxCalls == 11       \* add_request_result calls on the item under test

HostList == <<1, 2, 3>>            \* the hosts A, B, C of the host-list file
ReportHosts == {0, 1, 2, 3}        \* hosts reported; 0 is in no host list
Delays == {200, 900}               \* delays reported to the registry (ms)
ItemDelays == {100, 900, 2000}     \* delays recorded on the item under test
Threads == {1, 2}                  \* callers of report_cdn_result

Min(a, b) == IF a < b THEN a ELSE b

\* list[i], 0-based
At(list, i) == list[i + 1]

\* list[i] = v, 0-based
Store(list, i, v) == [list EXCEPT ![i + 1] = v]

----------------------------------------------------------------------------
(* State of a fresh process: the class-level attributes of Cdn             *)

IdleThread(ret) ==
    [pc |-> "idle", host |-> None, delay |-> 0, success |-> FALSE, item |-> 0,
     new_weight |-> RZero, i |-> 0, n |-> 0, ret |-> ret]

NoSelection == [st |-> "none", host |-> None]
IdleSaver == [pc |-> "idle", k |-> 0, entries |-> <<>>]
NoCall == <<None, FALSE>>
AbsentFile == [kind |-> "absent", has_version |-> FALSE, version |-> 0, cdn_list |-> <<>>]

\* items = [], is_ready = False, is_alive = True, cdn_list = [], cdn_map = {}
FreshProcess ==
    /\ items = <<>>
    /\ is_ready = FALSE
    /\ is_alive = TRUE
    /\ cdn_list = <<>>
    /\ cdn_map = <<>>
    /\ lock = 0
    /\ thr = [t \in Threads |-> IdleThread("none")]
    /\ selected = NoSelection
    /\ watchers = 0
    /\ saver = IdleSaver
    /\ err = "none"

----------------------------------------------------------------------------
(* One CdnItem on its own: add_request_result applied to a new CdnItem     *)

InitItem ==
    /\ cdn_item_file = <<>>
    /\ avail_file = AbsentFile
    /\ FreshProcess
    /\ objs = <<CdnItem(1)>>
    /\ hist = <<>>
    /\ last = NoCall

\* cdn_item.add_request_result(delay, success)
ItemAddRequestResult ==
    \E delay \in ItemDelays, success \in BOOLEAN :
        /\ objs[1].request_count < MaxCalls
        /\ objs' = [objs EXCEPT ![1] = AddRequestResult(@, delay, success)]
        /\ hist' = IF success THEN Append(hist, delay) ELSE hist
        /\ last' = <<delay, success>>
        /\ UNCHANGED <<cdn_item_file, avail_file, items, is_ready, is_alive, cdn_list,
                       cdn_map, lock, thr, selected, watchers, saver, err>>

NextItem == ItemAddRequestResult

SpecItem == InitItem /\ [][NextItem]_vars

----------------------------------------------------------------------------
(* Two CdnItems side by side: add_request_result applied to either         *)

MaxPairCalls == 4                  \* add_request_result calls on each item
PairDelays == {100, 2000}          \* delays recorded (ms)

InitPair ==
    /\ cdn_item_file = <<>>
    /\ avail_file = AbsentFile
    /\ FreshProcess
    /\ objs = <<CdnItem(1), CdnItem(2)>>
    /\ hist = <<>>
    /\ last = NoCall

\* cdn_item.add_request_result(delay, success) on one of the two items
PairAddRequestResult ==
    \E id \in {1, 2}, delay \in PairDelays, success \in BOOLEAN :
        /\ objs[id].request_count < MaxPairCalls
        /\ objs' = [objs EXCEPT ![id] = AddRequestResult(@, delay, success)]
        /\ UNCHANGED <<cdn_item_file, avail_file, items, is_ready, is_alive, cdn_list,
                       cdn_map, lock, thr, selected, watchers, saver, err, hist, last>>

NextPair == PairAddRequestResult

SpecPair == InitPair /\ [][NextPair]_vars

----------------------------------------------------------------------------
(* Cdn: load_items, restore_items, resort_cdn_list, save_available_items   *)

\* the registry a pure operator works on
Registry(o, l, m, it) == [objs |-> o, cdn_list |-> l, cdn_map |-> m, items |-> it]

\* Cdn.load_items over the lines of CDN_ITEM_FILE: line k makes object
\* Len(objs) + k with list_index = len(cdn_list), appends it to cdn_list, sets
\* cdn_map[host] to it (the last line of a host wins) and appends host to items
LoadItems(reg, lines) ==
    LET base == Len(reg.objs)
        new == [k \in 1..Len(lines) |->
                   [CdnItem(lines[k]) EXCEPT !.list_index = Len(reg.cdn_list) + k - 1]]
        hosts == {lines[k] : k \in 1..Len(lines)}
        LastLine(h) == CHOOSE k \in 1..Len(lines) :
                           /\ lines[k] = h
                           /\ \A j \in 1..Len(lines) : lines[j] = h => j <= k
    IN Registry(reg.objs \o new,
                reg.cdn_list \o [k \in 1..Len(lines) |-> base + k],
                [h \in (DOMAIN reg.cdn_map) \cup hosts |->
                    IF h \in hosts THEN base + LastLine(h) ELSE reg.cdn_map[h]],
                reg.items \o lines)

\* sorted(.., key=weight, reverse=True) is stable: x goes after every element
\* of the sorted prefix whose weight is >= its own
InsertByWeight(o, sorted, x) ==
    LET k == Cardinality({j \in 1..Len(sorted) : RGeq(o[sorted[j]].weight, o[x].weight)})
    IN SubSeq(sorted, 1, k) \o <<x>> \o SubSeq(sorted, k + 1, Len(sorted))

RECURSIVE SortByWeight(_, _)
SortByWeight(o, list) ==
    IF list = <<>> THEN <<>>
    ELSE InsertByWeight(o, SortByWeight(o, SubSeq(list, 1, Len(list) - 1)), list[Len(list)])

\* for i in range(len(cdn_list)): cdn_list[i].list_index = i
\* (an object at several indexes keeps the last one)
AssignListIndex(o, list) ==
    [id \in DOMAIN o |->
        LET at == {i \in 0..(Len(list) - 1) : At(list, i) = id}
        IN IF at = {} THEN o[id]
           ELSE [o[id] EXCEPT !.list_index = CHOOSE i \in at : \A j \in at : j <= i]]

\* Cdn.resort_cdn_list
ResortCdnList(reg) ==
    LET sorted == SortByWeight(reg.objs, reg.cdn_list)
    IN [reg EXCEPT !.cdn_list = sorted, !.objs = AssignListIndex(reg.objs, sorted)]

\* the loop `for x in restore_cdn_list` of restore_items; cdn_map[host] raises
\* KeyError on a host that is not tracked and the loop ends there
RECURSIVE RestoreRecords(_, _)
RestoreRecords(reg, records) ==
    IF records = <<>> THEN [reg |-> reg, exc |-> "none"]
    ELSE LET x == Head(records)
         IN IF x.host \notin DOMAIN reg.cdn_map
            THEN [reg |-> reg, exc |-> "KeyError"]
            ELSE LET id == reg.cdn_map[x.host]
                     o == [reg.objs EXCEPT ![id].request_count = x.request_count,
                                            ![id].success_count = x.success_count,
                                            ![id].weight = x.weight]
                 IN RestoreRecords([reg EXCEPT !.objs = o], Tail(records))

\* result.get('version', 1)
VersionOf(file) == IF file.has_version THEN file.version ELSE 1

\* Cdn.restore_items; file.kind is what reading and json.loads give:
\*   "absent"  no file             "notjson" JSONDecodeError, result = {}
\*   "falsy"   {} , [], null, 0    "nondict" a non-empty JSON value with no .get
\*   "dict"    a non-empty object
RestoreItems(reg, file) ==
    IF file.kind \in {"absent", "notjson", "falsy"}
    THEN [reg |-> reg, exc |-> "none"]
    ELSE IF file.kind = "nondict"
    THEN [reg |-> reg, exc |-> "AttributeError"]
    ELSE IF VersionOf(file) <= 1
    THEN [reg |-> reg, exc |-> "none"]
    ELSE LET r == RestoreRecords(reg, file.cdn_list)
         IN IF r.exc = "none"
            THEN [reg |-> ResortCdnList(r.reg), exc |-> "none"]
            ELSE r

\* CdnItemEncoder.default
EncodeItem(obj) ==
    [host |-> obj.host, request_count |-> obj.request_count,
     success_count |-> obj.success_count, weight |-> obj.weight]

\* the file save_available_items writes from the entries it encoded
SnapshotFile(entries) ==
    [kind |-> "dict", has_version |-> TRUE, version |-> 2, cdn_list |-> entries]

\* save_available_items when nothing else runs between its reads
SaveAvailableItems(o, list) ==
    SnapshotFile([k \in 1..Len(list) |-> EncodeItem(o[list[k]])])

----------------------------------------------------------------------------
(* Cdn.run / Cdn.start / Cdn.destroy                                       *)

\* request_count summed over the objects lo..hi of the heap
RECURSIVE RequestsIn(_, _, _)
RequestsIn(o, lo, hi) ==
    IF lo > hi THEN 0
    ELSE IF lo = hi THEN o[lo].request_count
    ELSE LET mid == (lo + hi) \div 2
         IN RequestsIn(o, lo, mid) + RequestsIn(o, mid + 1, hi)

TotalRequests(o) == RequestsIn(o, 1, Len(o))

\* Cdn.run(): is_alive = True, then start(): nothing more when CDN is disabled;
\* else load_items, restore_items, is_ready = True and a new watch_cdn thread.
\* An exception in restore_items leaves start() after load_items.
Run(maxStarts) ==
    \E enabled \in BOOLEAN :
        /\ is_alive' = TRUE
        /\ IF ~enabled
           THEN /\ err' = "none"
                /\ UNCHANGED <<objs, items, is_ready, cdn_list, cdn_map, watchers>>
           ELSE /\ Len(objs) + Len(cdn_item_file) <= maxStarts * Len(cdn_item_file)
                /\ LET loaded == LoadItems(Registry(objs, cdn_list, cdn_map, items),
                                           cdn_item_file)
                       r == RestoreItems(loaded, avail_file)
                   IN /\ objs' = r.reg.objs
                      /\ cdn_list' = r.reg.cdn_list
                      /\ cdn_map' = r.reg.cdn_map
                      /\ items' = r.reg.items
                      /\ err' = r.exc
                      /\ is_ready' = IF r.exc = "none" THEN TRUE ELSE is_ready
                      /\ watchers' = IF r.exc = "none" THEN watchers + 1 ELSE watchers
        /\ UNCHANGED <<cdn_item_file, avail_file, lock, thr, selected, saver, hist, last>>

\* Cdn.destroy(): is_alive = False, then init_data()
Destroy ==
    /\ is_alive' = FALSE
    /\ items' = <<>>
    /\ is_ready' = FALSE
    /\ UNCHANGED <<cdn_item_file, avail_file, objs, cdn_list, cdn_map, lock, thr,
                   selected, watchers, saver, err, hist, last>>

----------------------------------------------------------------------------
(* Cdn.report_cdn_result, one step per store that other threads can see    *)

UNCHANGED_Report ==
    UNCHANGED <<cdn_item_file, avail_file, items, is_ready, is_alive, cdn_map,
                selected, watchers, saver, err, hist, last>>

InFlight == Cardinality({t \in Threads : thr[t].pc # "idle"})

\* a caller enters report_cdn_result(host, delay, success)
ReportCall(t, hosts, delays, maxReports) ==
    \E host \in hosts, delay \in delays, success \in BOOLEAN :
        /\ thr[t].pc = "idle"
        /\ TotalRequests(objs) + InFlight < maxReports
        /\ thr' = [thr EXCEPT ![t] = [IdleThread("none") EXCEPT
                        !.pc = "acquire", !.host = host, !.delay = delay,
                        !.success = success]]
        /\ UNCHANGED <<objs, cdn_list, lock>>
        /\ UNCHANGED_Report

\* with self.lock:
Acquire(t) ==
    /\ thr[t].pc = "acquire"
    /\ lock = 0
    /\ lock' = t
    /\ thr' = [thr EXCEPT ![t].pc = "lookup"]
    /\ UNCHANGED <<objs, cdn_list>>
    /\ UNCHANGED_Report

\* cdn_item = self.cdn_map[host] raises KeyError when host is no key; the
\* with statement releases the lock and the exception reaches the caller
LookupKeyError(t) ==
    /\ thr[t].pc = "lookup"
    /\ thr[t].host \notin DOMAIN cdn_map
    /\ lock' = 0
    /\ thr' = [thr EXCEPT ![t] = IdleThread("KeyError")]
    /\ UNCHANGED <<objs, cdn_list>>
    /\ UNCHANGED_Report

\* cdn_item = self.cdn_map[host]; add_request_result: self.request_count += 1
Lookup(t) ==
    /\ thr[t].pc = "lookup"
    /\ thr[t].host \in DOMAIN cdn_map
    /\ LET id == cdn_map[thr[t].host]
       IN /\ objs' = [objs EXCEPT ![id] = IncRequestCount(@)]
          /\ thr' = [thr EXCEPT ![t].item = id,
                                ![t].pc = IF thr[t].success THEN "add_success"
                                                            ELSE "add_weight"]
    /\ UNCHANGED <<cdn_list, lock>>
    /\ UNCHANGED_Report

\* add_request_result: the body of `if success:`
AddSuccess(t) ==
    /\ thr[t].pc = "add_success"
    /\ objs' = [objs EXCEPT ![thr[t].item] = RecordSuccess(@, thr[t].delay)]
    /\ thr' = [thr EXCEPT ![t].pc = "add_weight"]
    /\ UNCHANGED <<cdn_list, lock>>
    /\ UNCHANGED_Report

\* where report_cdn_result goes once new_weight is known: into the loop that
\* moves the item up, into the loop that moves it down, or to the end
AfterWeight(o, list, id, new_weight) ==
    LET li == o[id].list_index
    IN IF li > 0 /\ RGt(new_weight, o[At(list, li - 1)].weight)
       THEN [pc |-> "up1", i |-> li - 1, n |-> 0]
       ELSE IF li < Len(list) - 1 /\ RLeq(new_weight, o[At(list, li + 1)].weight)
       THEN [pc |-> "down1", i |-> li + 1, n |-> Len(list)]
       ELSE [pc |-> "release", i |-> 0, n |-> 0]

\* add_request_result: self.weight = ...; new_weight = cdn_item.weight and the
\* two tests that choose the loop
AddWeight(t) ==
    /\ thr[t].pc = "add_weight"
    /\ LET id == thr[t].item
           o == [objs EXCEPT ![id] = ComputeWeight(@)]
           go == AfterWeight(o, cdn_list, id, o[id].weight)
       IN /\ objs' = o
          /\ thr' = [thr EXCEPT ![t].new_weight = o[id].weight,
                                ![t].pc = go.pc, ![t].i = go.i, ![t].n = go.n]
    /\ UNCHANGED <<cdn_list, lock>>
    /\ UNCHANGED_Report

\* UpTest leaving the loop after the first swap
UpTest_OneSwapOnly(o, list, new_weight, i) == "release"

\* the test of the upward loop at index i: range(list_index - 1, -1, -1)
UpTest(o, list, new_weight, i) ==
    IF i >= 0 /\ RGt(new_weight, o[At(list, i)].weight) THEN "up1" ELSE "release"

\* the test of the downward loop at index i: range(list_index + 1, n)
DownTest(o, list, new_weight, i, n) ==
    IF i < n /\ RLeq(new_weight, o[At(list, i)].weight) THEN "down1" ELSE "release"

\* self.cdn_list[i].list_index = i + 1
Up1(t) ==
    /\ thr[t].pc = "up1"
    /\ objs' = [objs EXCEPT ![At(cdn_list, thr[t].i)].list_index = thr[t].i + 1]
    /\ thr' = [thr EXCEPT ![t].pc = "up2"]
    /\ UNCHANGED <<cdn_list, lock>>
    /\ UNCHANGED_Report

\* self.cdn_list[i + 1] = self.cdn_list[i]
Up2(t) ==
    /\ thr[t].pc = "up2"
    /\ cdn_list' = Store(cdn_list, thr[t].i + 1, At(cdn_list, thr[t].i))
    /\ thr' = [thr EXCEPT ![t].pc = "up3"]
    /\ UNCHANGED <<objs, lock>>
    /\ UNCHANGED_Report

\* self.cdn_list[i] = cdn_item, then the loop test at i - 1
Up3(t) ==
    /\ thr[t].pc = "up3"
    /\ LET list == Store(cdn_list, thr[t].i, thr[t].item)
       IN /\ cdn_list' = list
          /\ thr' = [thr EXCEPT ![t].i = @ - 1,
                                ![t].pc = UpTest(objs, list, thr[t].new_weight,
                                                 thr[t].i - 1)]
    /\ UNCHANGED <<objs, lock>>
    /\ UNCHANGED_Report

\* self.cdn_list[i].list_index = i - 1
Down1(t) ==
    /\ thr[t].pc = "down1"
    /\ objs' = [objs EXCEPT ![At(cdn_list, thr[t].i)].list_index = thr[t].i - 1]
    /\ thr' = [thr EXCEPT ![t].pc = "down2"]
    /\ UNCHANGED <<cdn_list, lock>>
    /\ UNCHANGED_Report

\* self.cdn_list[i - 1] = self.cdn_list[i]
Down2(t) ==
    /\ thr[t].pc = "down2"
    /\ cdn_list' = Store(cdn_list, thr[t].i - 1, At(cdn_list, thr[t].i))
    /\ thr' = [thr EXCEPT ![t].pc = "down3"]
    /\ UNCHANGED <<objs, lock>>
    /\ UNCHANGED_Report

\* self.cdn_list[i] = cdn_item, then the loop test at i + 1
Down3(t) ==
    /\ thr[t].pc = "down3"
    /\ LET list == Store(cdn_list, thr[t].i, thr[t].item)
       IN /\ cdn_list' = list
          /\ thr' = [thr EXCEPT ![t].i = @ + 1,
                                ![t].pc = DownTest(objs, list, thr[t].new_weight,
                                                   thr[t].i + 1, thr[t].n)]
    /\ UNCHANGED <<objs, lock>>
    /\ UNCHANGED_Report

\* the end of the with block: the lock is released and the call returns
Release(t) ==
    /\ thr[t].pc = "release"
    /\ lock' = 0
    /\ thr' = [thr EXCEPT ![t] = IdleThread("ok")]
    /\ UNCHANGED <<objs, cdn_list>>
    /\ UNCHANGED_Report

----------------------------------------------------------------------------
(* Cdn.get_cdn                                                             *)

TOP_SLICE == 100

\* TopSlice one element longer
TopSlice_OffByOne(list) == SubSeq(list, 1, Min(TOP_SLICE + 1, Len(list)))

\* self.cdn_list[0:100]
TopSlice(list) == SubSeq(list, 1, Min(TOP_SLICE, Len(list)))

\* get_cdn returning None for an empty list instead of raising
GetCdn_NoneOnEmpty ==
    /\ selected = NoSelection
    /\ LET slice == SubSeq(cdn_list, 1, Min(100, Len(cdn_list)))
       IN IF slice = <<>>
          THEN selected' = [st |-> "host", host |-> None]
          ELSE \E k \in 1..Len(slice) :
                   selected' = [st |-> "host", host |-> objs[slice[k]].host]
    /\ UNCHANGED <<cdn_item_file, avail_file, objs, items, is_ready, is_alive,
                   cdn_list, cdn_map, lock, thr, watchers, saver, err, hist, last>>

\* random.choice(self.cdn_list[0:100]).host; random.choice raises IndexError
\* on an empty sequence. get_cdn takes no lock.
GetCdn ==
    /\ selected = NoSelection
    /\ LET slice == TopSlice(cdn_list)
       IN IF slice = <<>>
          THEN selected' = [st |-> "IndexError", host |-> None]
          ELSE \E k \in 1..Len(slice) :
                   selected' = [st |-> "host", host |-> objs[slice[k]].host]
    /\ UNCHANGED <<cdn_item_file, avail_file, objs, items, is_ready, is_alive,
                   cdn_list, cdn_map, lock, thr, watchers, saver, err, hist, last>>

\* the caller of get_cdn takes the outcome
UseCdn ==
    /\ selected # NoSelection
    /\ selected' = NoSelection
    /\ UNCHANGED <<cdn_item_file, avail_file, objs, items, is_ready, is_alive,
                   cdn_list, cdn_map, lock, thr, watchers, saver, err, hist, last>>

----------------------------------------------------------------------------
(* Cdn.watch_cdn and save_available_items. json.dumps walks cdn_list and   *)
(* calls CdnItemEncoder.default on one item at a time, without the lock;   *)
(* one save is in progress at a time.                                      *)

UNCHANGED_Save ==
    UNCHANGED <<cdn_item_file, objs, items, is_ready, is_alive, cdn_list, cdn_map,
                lock, thr, selected, watchers, err, hist, last>>

\* watch_cdn: after stay_second(600), `if self.is_alive:` save_available_items()
SaveBegin ==
    /\ watchers > 0
    /\ is_alive
    /\ saver.pc = "idle"
    /\ saver' = [pc |-> "dump", k |-> 0, entries |-> <<>>]
    /\ UNCHANGED avail_file
    /\ UNCHANGED_Save

\* json.dumps encodes the item at index k
SaveItem ==
    /\ saver.pc = "dump"
    /\ saver.k < Len(cdn_list)
    /\ saver' = [saver EXCEPT !.k = @ + 1,
                              !.entries = Append(@, EncodeItem(objs[At(cdn_list, saver.k)]))]
    /\ UNCHANGED avail_file
    /\ UNCHANGED_Save

\* f.write(json.dumps(data, cls=CdnItemEncoder))
SaveWrite ==
    /\ saver.pc = "dump"
    /\ saver.k >= Len(cdn_list)
    /\ avail_file' = SnapshotFile(saver.entries)
    /\ saver' = IdleSaver
    /\ UNCHANGED_Save

----------------------------------------------------------------------------
(* The registry in one process                                             *)

Init ==
    /\ cdn_item_file = HostList
    /\ avail_file = AbsentFile
    /\ FreshProcess
    /\ objs = <<>>
    /\ hist = <<>>
    /\ last = NoCall

ReportStep(t) ==
    \/ Acquire(t)
    \/ LookupKeyError(t)
    \/ Lookup(t)
    \/ AddSuccess(t)
    \/ AddWeight(t)
    \/ Up1(t)
    \/ Up2(t)
    \/ Up3(t)
    \/ Down1(t)
    \/ Down2(t)
    \/ Down3(t)
    \/ Release(t)

\* one caller of report_cdn_result at a time, any number of get_cdn calls
Next ==
    \/ Run(MaxStarts)
    \/ ReportCall(1, ReportHosts, Delays, MaxReports)
    \/ ReportStep(1)
    \/ GetCdn
    \/ UseCdn

Spec == Init /\ [][Next]_vars

\* concurrent callers of report_cdn_result and get_cdn
NextConc ==
    \/ Run(MaxStarts)
    \/ \E t \in Threads : ReportCall(t, ReportHosts, Delays, MaxReports)
    \/ \E t \in Threads : ReportStep(t)
    \/ GetCdn
    \/ UseCdn

SpecConc == Init /\ [][NextConc]_vars

----------------------------------------------------------------------------
(* A started pool one host longer than the slice get_cdn chooses from,     *)
(* beside the started pool of three                                        *)

MaxBigReports == 1                 \* add_request_result calls
BigHostList == [k \in 1..(TOP_SLICE + 1) |-> k]
BigReportHosts == {0, 3}
BigDelays == {200}

\* the state Cdn.run() leaves a fresh process in when there is no snapshot file
InitBig ==
    /\ cdn_item_file \in {HostList, BigHostList}
    /\ avail_file = AbsentFile
    /\ LET loaded == LoadItems(Registry(<<>>, <<>>, <<>>, <<>>), cdn_item_file)
       IN /\ objs = loaded.objs
          /\ cdn_list = loaded.cdn_list
          /\ cdn_map = loaded.cdn_map
          /\ items = loaded.items
    /\ is_ready = TRUE
    /\ is_alive = TRUE
    /\ lock = 0
    /\ thr = [t \in Threads |-> IdleThread("none")]
    /\ selected = NoSelection
    /\ watchers = 1
    /\ saver = IdleSaver
    /\ err = "none"
    /\ hist = <<>>
    /\ last = NoCall

NextBig ==
    \/ ReportCall(1, BigReportHosts, BigDelays, MaxBigReports)
    \/ ReportStep(1)
    \/ GetCdn
    \/ UseCdn

SpecBig == InitBig /\ [][NextBig]_vars

----------------------------------------------------------------------------
(* The registry started from a snapshot file left by an earlier process    *)

MaxLoadStarts == 2   \* load_items runs per process
MaxLoadReports == 2  \* add_request_result calls, restored request counts included

SnapshotRecord(host, request_count, success_count, weight) ==
    [host |-> host, request_count |-> request_count,
     success_count |-> success_count, weight |-> weight]

\* files found at startup
NotJsonFile == [AbsentFile EXCEPT !.kind = "notjson"]
FalsyFile == [AbsentFile EXCEPT !.kind = "falsy"]
NonDictFile == [AbsentFile EXCEPT !.kind = "nondict"]
V2File ==
    SnapshotFile(<<SnapshotRecord(2, 1, 1, <<10100, 1>>),
                   SnapshotRecord(1, 0, 0, <<0, 1>>),
                   SnapshotRecord(3, 0, 0, <<0, 1>>)>>)
V1File == [V2File EXCEPT !.version = 1]
NoVersionFile == [V2File EXCEPT !.has_version = FALSE, !.version = 0]
V2UntrackedFile ==
    SnapshotFile(<<SnapshotRecord(2, 1, 1, <<10100, 1>>),
                   SnapshotRecord(0, 1, 1, <<10800, 1>>),
                   SnapshotRecord(1, 0, 0, <<0, 1>>)>>)

InitFiles == {AbsentFile, NotJsonFile, FalsyFile, NonDictFile, V1File,
              NoVersionFile, V2File, V2UntrackedFile}

InitLoad ==
    /\ cdn_item_file = HostList
    /\ avail_file \in InitFiles
    /\ FreshProcess
    /\ objs = <<>>
    /\ hist = <<>>
    /\ last = NoCall

NextLoad ==
    \/ Run(MaxLoadStarts)
    \/ ReportCall(1, ReportHosts, Delays, MaxLoadReports)
    \/ ReportStep(1)

SpecLoad == InitLoad /\ [][NextLoad]_vars

----------------------------------------------------------------------------
(* Lifecycle: run() and destroy() called again and again (as by            *)
(* update_cdn_status), with the watch_cdn loop and get_cdn, no reports      *)

MaxLifeStarts == 2   \* load_items runs per process

NextLife ==
    \/ Run(MaxLifeStarts)
    \/ Destroy
    \/ GetCdn
    \/ UseCdn
    \/ SaveBegin
    \/ SaveItem
    \/ SaveWrite

SpecLife == Init /\ [][NextLife]_vars

----------------------------------------------------------------------------
(* The watch_cdn loop saving while report_cdn_result calls run             *)

MaxSaveStarts == 1   \* load_items runs per process
MaxSaveReports == 2  \* add_request_result calls

NextSave ==
    \/ Run(MaxSaveStarts)
    \/ ReportCall(1, ReportHosts, Delays, MaxSaveReports)
    \/ ReportStep(1)
    \/ SaveBegin
    \/ SaveItem
    \/ SaveWrite

SpecSave == Init /\ [][NextSave]_vars

----------------------------------------------------------------------------
(* One report on a pool restored from a snapshot of an earlier process     *)

MaxStepReports == 4  \* add_request_result calls, restored request counts included

\* snapshots save_available_items wrote after three reports
\* A(200, ok), B(900, ok), C(fail)
StepFileABC ==
    SnapshotFile(<<SnapshotRecord(1, 1, 1, <<10800, 1>>),
                   SnapshotRecord(2, 1, 1, <<10100, 1>>),
                   SnapshotRecord(3, 1, 0, <<0, 1>>)>>)
\* A(200, ok), B(900, ok), A(200, fail)
StepFileBAC ==
    SnapshotFile(<<SnapshotRecord(2, 1, 1, <<10100, 1>>),
                   SnapshotRecord(1, 2, 1, <<5800, 1>>),
                   SnapshotRecord(3, 0, 0, <<0, 1>>)>>)
\* A(fail), B(fail), C(fail)
StepFileTies ==
    SnapshotFile(<<SnapshotRecord(3, 1, 0, <<0, 1>>),
                   SnapshotRecord(1, 1, 0, <<0, 1>>),
                   SnapshotRecord(2, 1, 0, <<0, 1>>)>>)
\* A(200, ok), C(900, ok), C(900, ok)
StepFileACB ==
    SnapshotFile(<<SnapshotRecord(1, 1, 1, <<10800, 1>>),
                   SnapshotRecord(3, 2, 2, <<10100, 1>>),
                   SnapshotRecord(2, 0, 0, <<0, 1>>)>>)

\* A(200, ok), B(200, ok), C(fail)
StepFileTopTie ==
    SnapshotFile(<<SnapshotRecord(1, 1, 1, <<10800, 1>>),
                   SnapshotRecord(2, 1, 1, <<10800, 1>>),
                   SnapshotRecord(3, 1, 0, <<0, 1>>)>>)

StepFiles == {StepFileABC, StepFileBAC, StepFileTies, StepFileACB, StepFileTopTie}

\* the registry load_items and restore_items build from the two files
Restored(lines, file) ==
    RestoreItems(LoadItems(Registry(<<>>, <<>>, <<>>, <<>>), lines), file).reg

\* the state Cdn.run() leaves a fresh process in when it finds the snapshot
InitStep ==
    /\ cdn_item_file = HostList
    /\ avail_file \in StepFiles
    /\ LET reg == Restored(cdn_item_file, avail_file)
       IN /\ objs = reg.objs
          /\ cdn_list = reg.cdn_list
          /\ cdn_map = reg.cdn_map
          /\ items = reg.items
    /\ is_ready = TRUE
    /\ is_alive = TRUE
    /\ lock = 0
    /\ thr = [t \in Threads |-> IdleThread("none")]
    /\ selected = NoSelection
    /\ watchers = 1
    /\ saver = IdleSaver
    /\ err = "none"
    /\ hist = <<>>
    /\ last = NoCall

NextStep ==
    \/ ReportCall(1, ReportHosts, Delays, MaxStepReports)
    \/ ReportStep(1)

SpecStep == InitStep /\ [][NextStep]_vars

----------------------------------------------------------------------------
(* Properties of the registry                                              *)

\* list is descending by weight
SortedByWeight(o, list) ==
    \A k \in 1..(Len(list) - 1) : RGeq(o[list[k]].weight, o[list[k + 1]].weight)

\* every object of o is in list at the index it stores
IndexedByPosition(o, list) ==
    \A id \in DOMAIN o :
        /\ o[id].list_index \in 0..(Len(list) - 1)
        /\ At(list, o[id].list_index) = id

\* C1: after each report_cdn_result call on a tracked host, from a freshly
\* loaded pool, cdn_list is sorted descending by weight and every item, the
\* moved one included, is at the index its list_index stores.
C1_SortedAndIndexed ==
    (thr[1].pc = "idle" /\ thr[1].ret = "ok") =>
        /\ SortedByWeight(objs, cdn_list)
        /\ IndexedByPosition(objs, cdn_list)

\* C2: once concurrent report_cdn_result calls against distinct hosts have
\* completed (every thread has returned, no host was reported twice), no two
\* items store the same list_index and every host of cdn_map is in cdn_list
\* exactly once.
C2_OneSlotEach ==
    (/\ \A t \in Threads : thr[t].pc = "idle" /\ thr[t].ret = "ok"
     /\ \A id \in DOMAIN objs : objs[id].request_count <= 1
     /\ Cardinality({id \in DOMAIN objs : objs[id].request_count = 1}) >= 2) =>
        /\ \A a, b \in DOMAIN objs :
               a # b => objs[a].list_index # objs[b].list_index
        /\ \A h \in DOMAIN cdn_map :
               Cardinality({k \in 1..Len(cdn_list) : cdn_list[k] = cdn_map[h]}) = 1

\* C3: the host get_cdn returns is the host of an item at an index below
\* min(100, len(cdn_list)) of cdn_list as it is when get_cdn reads it.
C3_SelectFromTop ==
    [][(selected = NoSelection /\ selected'.st = "host") =>
        \E k \in 1..Len(cdn_list) :
            /\ k <= 100
            /\ objs[cdn_list[k]].host = selected'.host
      ]_vars

\* C3 witness: in the pool of 101, the host loaded last has been returned
\* while a report is between the two stores of a swap
C3_Witness ==
    /\ Len(cdn_list) = 101
    /\ selected = [st |-> "host", host |-> 101]
    /\ thr[1].pc \in {"up3", "down3"}

OutdatedOrMissing(file) ==
    \/ file.kind \in {"absent", "notjson", "falsy", "nondict"}
    \/ file.kind = "dict" /\ (~file.has_version \/ file.version <= 1)

\* C5: a start that finds such a snapshot returns normally and leaves the
\* registry as load_items made it: the items and the order that were there
\* are unchanged and the new items have zero counters and weight, in the
\* order of the host list, each at the index it stores.
C5_OutdatedIgnored ==
    [][(Len(cdn_list') > Len(cdn_list) /\ OutdatedOrMissing(avail_file)) =>
        /\ err' = "none"
        /\ is_ready'
        /\ Len(cdn_list') = Len(cdn_list) + Len(cdn_item_file)
        /\ SubSeq(cdn_list', 1, Len(cdn_list)) = cdn_list
        /\ \A id \in DOMAIN objs : objs'[id] = objs[id]
        /\ \A k \in 1..Len(cdn_item_file) :
              LET new == objs'[cdn_list'[Len(cdn_list) + k]]
              IN /\ new.host = cdn_item_file[k]
                 /\ new.list_index = Len(cdn_list) + k - 1
                 /\ new.request_count = 0
                 /\ new.success_count = 0
                 /\ new.weight = <<0, 1>>
      ]_vars

\* C6: report_cdn_result for a host that is not tracked returns normally,
\* releases the lock and leaves cdn_list, cdn_map and every item unchanged.
C6_UntrackedIgnored ==
    [][\A t \in Threads :
        (thr[t].pc = "lookup" /\ thr[t].host \notin DOMAIN cdn_map
                              /\ thr'[t].pc # "lookup") =>
            /\ thr'[t].ret = "ok"
            /\ lock' = 0
            /\ UNCHANGED <<objs, cdn_list, cdn_map>>
      ]_vars

\* C7: get_cdn on an empty cdn_list ends in an outcome that is no host value
\* (IndexError) and changes nothing of the registry; a host that get_cdn
\* returns is always a host of the host list.
C7_EmptyPool ==
    [][(selected = NoSelection /\ selected' # NoSelection) =>
        /\ cdn_list = <<>> =>
              /\ selected'.st = "IndexError"
              /\ UNCHANGED <<objs, items, is_ready, is_alive, cdn_list, cdn_map, lock>>
        /\ selected'.st = "host" =>
              \E k \in 1..Len(cdn_item_file) : selected'.host = cdn_item_file[k]
      ]_vars

\* C7 witness: get_cdn was called before the pool was loaded
C7_Witness ==
    /\ selected.st = "IndexError"
    /\ cdn_list = <<>>

----------------------------------------------------------------------------
(* Properties of CdnItem.add_request_result, checked under SpecItem        *)

RECURSIVE SumSeq(_)
SumSeq(q) == IF q = <<>> THEN 0 ELSE Head(q) + SumSeq(Tail(q))

\* the last n elements of q, all of q when it has fewer
LastN(q, n) == SubSeq(q, Len(q) - Min(n, Len(q)) + 1, Len(q))

\* C8: after every add_request_result on an item with S successes out of T
\* requests and a delay window of W >= 1 samples with average A,
\* weight = (S/T)*10000 + max(0, (1000-A)/1000)*1000 exactly (here with both
\* sides multiplied by T*W); an item with only failures has weight 0; and
\* delay_rate_score lies in [0, 1].
C8_WeightFormula ==
    LET it == objs[1]
        S == it.success_count
        T == it.request_count
        W == Len(it.delay_data)
        sum == SumSeq(it.delay_data)
        part == IF 1000 * W - sum > 0 THEN 1000 * W - sum ELSE 0
    IN T > 0 =>
        /\ W >= 1 => it.weight[1] * (T * W) = it.weight[2] * (10000 * S * W + part * T)
        /\ S = 0 => it.weight = <<0, 1>>
        /\ it.delay_rate_score[1] >= 0
        /\ it.delay_rate_score[1] <= it.delay_rate_score[2]

\* C8 witness: 2 successes (100 ms, 900 ms) in 3 requests: 20000/3 + 500
C8_Witness ==
    /\ objs[1].request_count = 3
    /\ objs[1].success_count = 2
    /\ objs[1].delay_data = <<100, 900>>
    /\ objs[1].weight = <<21500, 3>>

\* C9: the delay window holds at most 10 samples, which are the delays of the
\* most recent (up to 10) successful calls in call order, and delay_count is
\* the sum of the window; after successes with delays 10 x 100 then 900 the
\* window sums to 1800 (average 180) and delay_rate_score is 0.82.
C9_DelayWindow ==
    LET it == objs[1]
    IN /\ Len(it.delay_data) <= 10
       /\ it.delay_data = LastN(hist, 10)
       /\ it.delay_count = SumSeq(it.delay_data)
       /\ hist = <<100, 100, 100, 100, 100, 100, 100, 100, 100, 100, 900>>
            => /\ it.delay_count = 1800
               /\ it.delay_rate_score = <<41, 50>>

\* C9 witness: the eleventh success has evicted the first sample
C9_Witness ==
    /\ hist = <<100, 100, 100, 100, 100, 100, 100, 100, 100, 100, 900>>
    /\ objs[1].delay_data = <<100, 100, 100, 100, 100, 100, 100, 100, 100, 900>>
    /\ objs[1].delay_rate_score = <<41, 50>>

\* C10: a call with success = False adds one to request_count and sets weight
\* from the new success rate and the old delay score; success_count, the delay
\* window, delay_count and delay_rate_score stay as they were, whatever the delay.
C10_FailureFrame ==
    [][(objs' # objs /\ last'[2] = FALSE) =>
        LET old == objs[1]
            new == objs'[1]
        IN /\ new.request_count = old.request_count + 1
           /\ new.success_count = old.success_count
           /\ new.delay_data = old.delay_data
           /\ new.delay_count = old.delay_count
           /\ new.delay_rate_score = old.delay_rate_score
           /\ new.weight[1] * (new.request_count * old.delay_rate_score[2])
                = new.weight[2] * (10000 * old.success_count * old.delay_rate_score[2]
                                   + 1000 * old.delay_rate_score[1] * new.request_count)
      ]_vars

\* C10 witness: a failure with delay 2000 recorded after a success with delay 100
C10_Witness ==
    /\ last = <<2000, FALSE>>
    /\ objs[1].request_count = 2
    /\ objs[1].delay_data = <<100>>
    /\ objs[1].delay_rate_score = <<9, 10>>
    /\ objs[1].weight = <<5900, 1>>

----------------------------------------------------------------------------
(* Properties of the lifecycle, checked under SpecLife                     *)

\* C11: once destroy() has returned (and until the next run()), cdn_list and
\* cdn_map are empty.
C11_StopClears ==
    ~is_alive => (cdn_list = <<>> /\ DOMAIN cdn_map = {})

\* C12: after any sequence of run() / destroy() calls that has started the
\* pool, cdn_list holds exactly one item per host of the host list and
\* cdn_map maps each host to that item.
C12_PoolFixed ==
    is_ready =>
        /\ Len(cdn_list) = Len(cdn_item_file)
        /\ \A k \in 1..Len(cdn_item_file) :
              LET h == cdn_item_file[k]
                  at == {j \in 1..Len(cdn_list) : objs[cdn_list[j]].host = h}
              IN /\ Cardinality(at) = 1
                 /\ h \in DOMAIN cdn_map
                 /\ \A j \in at : cdn_list[j] = cdn_map[h]

\* C16: no snapshot is written between the return of destroy() and the next
\* run(), and at most one watch_cdn loop exists.
C16_StopHaltsSaver ==
    [][/\ (saver.pc = "dump" /\ saver'.pc = "idle") => is_alive
       /\ watchers' <= 1
      ]_vars

----------------------------------------------------------------------------
(* Properties of the restored registry, checked under SpecLoad             *)

\* weight = success_count / request_count * 10000 + delay_rate_score * 1000
WeightIsCurrent(it) ==
    it.weight[1] * (it.request_count * it.delay_rate_score[2])
        = it.weight[2] * (10000 * it.success_count * it.delay_rate_score[2]
                          + 1000 * it.delay_rate_score[1] * it.request_count)

\* C13: in every state outside a running add_request_result, after a start
\* that returned normally and further reports included, every item with request_count > 0 has
\* weight = success_count/request_count * 10000 + delay_rate_score * 1000 of
\* its current counters and delay_rate_score.
C13_WeightNeverStale ==
    (/\ err = "none"
     /\ \A t \in Threads : thr[t].pc \notin {"add_success", "add_weight"}) =>
        \A id \in DOMAIN objs :
            objs[id].request_count > 0 => WeightIsCurrent(objs[id])

\* C19: a first start on a version-2 snapshot that has a record of an
\* untracked host skips that record, applies every record of a tracked host,
\* adds no host, and ends normally with cdn_list sorted descending by weight
\* and every list_index equal to the item's index.
C19_UntrackedRecordSkipped ==
    [][(/\ cdn_list = <<>>
        /\ cdn_list' # <<>>
        /\ avail_file.kind = "dict"
        /\ avail_file.has_version
        /\ avail_file.version >= 2
        /\ \E k \in 1..Len(avail_file.cdn_list) :
               \A j \in 1..Len(cdn_item_file) :
                   avail_file.cdn_list[k].host # cdn_item_file[j]) =>
        /\ err' = "none"
        /\ is_ready'
        /\ Len(cdn_list') = Len(cdn_item_file)
        /\ DOMAIN cdn_map' = {cdn_item_file[j] : j \in 1..Len(cdn_item_file)}
        /\ \A k \in 1..Len(avail_file.cdn_list) :
              LET x == avail_file.cdn_list[k]
              IN x.host \in DOMAIN cdn_map' =>
                    LET it == objs'[cdn_map'[x.host]]
                    IN /\ it.request_count = x.request_count
                       /\ it.success_count = x.success_count
                       /\ it.weight = x.weight
        /\ SortedByWeight(objs', cdn_list')
        /\ IndexedByPosition(objs', cdn_list')
      ]_vars

----------------------------------------------------------------------------
(* Properties of get_cdn and save_available_items beside running reports   *)

\* C14: get_cdn never reads cdn_list between the two stores of a swap of
\* report_cdn_result, where the neighbour is in two slots and the moving
\* item in none.
C14_SelectNotMidReorder ==
    [][(selected = NoSelection /\ selected'.st = "host") =>
        \A t \in Threads : thr[t].pc \notin {"up3", "down3"}
      ]_vars

\* C15: a snapshot written while at most one report_cdn_result call has begun
\* lists each host of the pool exactly once, and each entry's request_count,
\* success_count and weight belong to one state between calls: the weight of
\* an entry with requests is its success rate * 10000 plus a delay part
\* within [0, 1000], and an entry without requests has weight 0.
C15_SnapshotConsistent ==
    [][(saver.pc = "dump" /\ saver'.pc = "idle" /\ TotalRequests(objs) <= 1) =>
        LET entries == avail_file'.cdn_list
        IN /\ \A h \in DOMAIN cdn_map :
                 Cardinality({k \in 1..Len(entries) : entries[k].host = h}) = 1
           /\ \A k \in 1..Len(entries) :
                 LET x == entries[k]
                     T == x.request_count
                     S == x.success_count
                 IN IF T = 0 THEN x.weight = RZero
                    ELSE /\ x.weight[1] * T >= 10000 * S * x.weight[2]
                         /\ x.weight[1] * T <= (10000 * S + 1000 * T) * x.weight[2]
      ]_vars

----------------------------------------------------------------------------
(* Properties of the weights of two items, checked under SpecPair          *)

\* success rate of x minus success rate of y, times their request counts
RateGap(x, y) == x.success_count * y.request_count - y.success_count * x.request_count

\* C17 as stated: of two items with requests, the one with the strictly
\* higher success rate has the strictly higher weight, whatever the delays.
C17_RateDominance ==
    \A x, y \in DOMAIN objs :
        (/\ objs[x].request_count > 0
         /\ objs[y].request_count > 0
         /\ RateGap(objs[x], objs[y]) > 0) =>
            RGt(objs[x].weight, objs[y].weight)

\* C17 amended: of two items with requests, one whose success rate is higher
\* by more than 0.1 (AVG_DELAY_WEIGHT / SUCCESS_RATE_WEIGHT) has the strictly
\* higher weight, whatever the delays.
C17_RateDominanceByGap ==
    \A x, y \in DOMAIN objs :
        (/\ objs[x].request_count > 0
         /\ objs[y].request_count > 0
         /\ 10 * RateGap(objs[x], objs[y]) > objs[x].request_count * objs[y].request_count) =>
            RGt(objs[x].weight, objs[y].weight)

\* C17 witness: item 1 at rate 3/4 with delay score 0 (7500) above item 2 at
\* rate 1/2 with delay score 0.9 (5900)
C17_Witness ==
    /\ objs[1].request_count = 4
    /\ objs[1].success_count = 3
    /\ objs[1].delay_rate_score = <<0, 1>>
    /\ objs[2].request_count = 2
    /\ objs[2].success_count = 1
    /\ objs[2].delay_rate_score = <<9, 10>>
    /\ objs[1].weight = <<7500, 1>>
    /\ objs[2].weight = <<5900, 1>>

----------------------------------------------------------------------------
(* Properties of the reorder of report_cdn_result                          *)

\* C18: an item moves only past a neighbour of strictly different weight:
\* the downward walk takes a step only when the next item's weight is
\* strictly greater than the new weight, the upward walk only when the
\* previous item's weight is strictly smaller; on a tie the item keeps its
\* slot and the walk stops.
C18_TiesDoNotMove ==
    [][\A t \in Threads :
        /\ (thr[t].pc \in {"add_weight", "down3"} /\ thr'[t].pc = "down1") =>
              RGt(objs'[At(cdn_list', thr'[t].i)].weight, thr'[t].new_weight)
        /\ (thr[t].pc \in {"add_weight", "up3"} /\ thr'[t].pc = "up1") =>
              RGt(thr'[t].new_weight, objs'[At(cdn_list', thr'[t].i)].weight)
      ]_vars

\* list without the entries equal to id
Without(list, id) == SelectSeq(list, LAMBDA e : e # id)

\* C20: the first report_cdn_result on a tracked host after a start, which
\* finds cdn_list a permutation of the pool, sorted descending by weight, each
\* item at the index it stores, leaves cdn_list a permutation of the same
\* items, sorted descending by weight, with the items other than the reported
\* one in the order they had.
C20_SingleStepReorder ==
    LET pre == Restored(cdn_item_file, avail_file)
    IN (/\ thr[1].pc = "idle"
        /\ thr[1].ret = "ok"
        /\ SortedByWeight(pre.objs, pre.cdn_list)
        /\ IndexedByPosition(pre.objs, pre.cdn_list)
        /\ TotalRequests(objs) = TotalRequests(pre.objs) + 1) =>
            /\ Len(cdn_list) = Len(pre.cdn_list)
            /\ \A id \in DOMAIN objs :
                  Cardinality({k \in 1..Len(cdn_list) : cdn_list[k] = id}) = 1
            /\ SortedByWeight(objs, cdn_list)
            /\ \A id \in DOMAIN objs :
                  objs[id].request_count # pre.objs[id].request_count =>
                      Without(cdn_list, id) = Without(pre.cdn_list, id)

\* C20 witness: on the restored order B, A, C a success of C has moved C up
\* two slots, past A and B
C20_Witness ==
    /\ avail_file = StepFileBAC
    /\ thr[1].pc = "idle"
    /\ thr[1].ret = "ok"
    /\ TotalRequests(objs) = 4
    /\ objs[3].success_count = 1
    /\ cdn_list = <<3, 2, 1>>

====
